---- MODULE Spec2Model ----
(***************************************************************************)
(* Model of the esdc validation engine: the rule functions of re0.py, the  *)
(* registry and executor of validate.RuleEngine, and the aggregator        *)
(* RuleEngine._val_results_transform.                                      *)
(*                                                                         *)
(* A data frame is a sequence of rows; the row at position p carries the   *)
(* label p - 1 (the RangeIndex that read_sql_query and merge both give).   *)
(* A numeric cell is <<>> when missing and <<v>> when it holds v.  A       *)
(* boolean series is a function from row labels to BOOLEAN.                *)
(***************************************************************************)
EXTENDS Integers, Sequences, FiniteSets, TLC

\* ---------------------------------------------------------------- bounds
MaxRows == 2
MaxPairs == 3

\* ------------------------------------------------------- column vocabulary
Low == "1. Low Value"
Mid == "2. Middle Value"
High == "3. High Value"
Rungs == {Low, Mid, High}

volumetric_columns ==
    << "report_year", "wk_name", "field_id", "field_name", "project_id",
       "project_name", "uncert_lvl",
       "rec_oil", "rec_con", "rec_ga", "rec_gn",
       "res_oil", "res_con", "res_ga", "res_gn",
       "prj_ioip", "prj_igip" >>

Range(s) == {s[k] : k \in 1..Len(s)}

\* volumetric_columns[7:] and, for the claims, volumetric_columns[:7]
MeasuredSeq == SubSeq(volumetric_columns, 8, Len(volumetric_columns))
MeasuredCols == Range(MeasuredSeq)
IdentityCols == Range(SubSeq(volumetric_columns, 1, 7))
AllCols == Range(volumetric_columns)

\* ------------------------------------------------------------ cell values
Missing == <<>>
Num(v) == <<v>>
IsNull(x) == x = Missing

\* pandas comparisons: a comparison with a missing operand is False
Ge(x, b) == (~IsNull(x)) /\ x[1] >= b
Le(x, y) == (~IsNull(x)) /\ (~IsNull(y)) /\ x[1] <= y[1]

\* ---------------------------------------------------------------- datasets
Projects == {"P1", "P2"}
DefaultVal == Num(10)
DevVals == {Missing, Num(-5), Num(0), Num(15)}

WkOf(p) == IF p = "P1" THEN "WK-A" ELSE ""

BaseRow(p, u) ==
    [ report_year |-> 2024, wk_name |-> WkOf(p), field_id |-> "F-" \o p,
      field_name |-> "Field " \o p, project_id |-> p,
      project_name |-> "Project " \o p, uncert_lvl |-> u,
      rec_oil |-> DefaultVal, rec_con |-> DefaultVal, rec_ga |-> DefaultVal,
      rec_gn |-> DefaultVal, res_oil |-> DefaultVal, res_con |-> DefaultVal,
      res_ga |-> DefaultVal, res_gn |-> DefaultVal,
      prj_ioip |-> DefaultVal, prj_igip |-> DefaultVal ]

RowIds == Projects \X Rungs

\* sequences of at most n row identities
RECURSIVE IdSeqs(_)
IdSeqs(n) ==
    IF n = 0 THEN {<<>>}
    ELSE LET prev == IdSeqs(n - 1)
         IN prev \cup
            { Append(s, id) : s \in {t \in prev : Len(t) = n - 1},
                              id \in RowIds }

DistinctIds(s) == \A a, b \in 1..Len(s) : a # b => s[a] # s[b]

Skeleton(s) == [k \in 1..Len(s) |-> BaseRow(s[k][1], s[k][2])]

\* one perturbation of the default values: a measured column set to v in
\* the row at position k, or in every row when k = 0
Perturbations(n) ==
    {<<k, c, v>> : k \in 0..n, c \in MeasuredCols, v \in DevVals}

Perturb(rows, d) ==
    [k \in 1..Len(rows) |->
        IF d[1] \in {0, k} THEN [rows[k] EXCEPT ![d[2]] = d[3]] ELSE rows[k]]

\* a frame carries its rows and the names of the expected columns it lacks
NoFrame == [kind |-> "none", rows |-> <<>>, lacks |-> {}]
Frame(rows) == [kind |-> "frame", rows |-> rows, lacks |-> {}]
Lacking(rows, c) == [kind |-> "frame", rows |-> rows, lacks |-> {c}]

\* ------------------------------------------------------------------ frames
Label(p) == p - 1
Labels(rows) == {Label(p) : p \in 1..Len(rows)}
At(rows, l) == rows[l + 1]

\* df[df["uncert_lvl"] == u].index
RungLabels(rows, u) == {l \in Labels(rows) : At(rows, l).uncert_lvl = u}

\* series.any() and series.loc[series].index
AnyTrue(mask) == \E l \in DOMAIN mask : mask[l]
TrueLabels(mask) == {l \in DOMAIN mask : mask[l]}

\* Severity: STRICT is the one the rules use, WARNING and INFO the other two
STRICT == "strict"
WARNING == "warning"
INFO == "info"
Severities == {STRICT, WARNING, INFO}
Result(column, name, severity, invalid) ==
    [column |-> column, rule_id |-> name, severity |-> severity,
     mask |-> invalid]

\* ------------------------------------------------ shape A: bound at low rung
\* variant: the bound tested with > 0 in place of >= 0
BoundInvalid_Strict(project_resources, col) ==
    [l \in RungLabels(project_resources.rows, Low) |->
        LET x == At(project_resources.rows, l)[col]
        IN ~((~IsNull(x)) /\ x[1] > 0)]

\* ~(project_resources[uncert_lvl == "1. Low Value"][col] >= 0)
BoundInvalid(project_resources, col) ==
    [l \in RungLabels(project_resources.rows, Low) |->
        ~Ge(At(project_resources.rows, l)[col], 0)]

re0007(project_resources) ==
    Result("rec_oil", "re0007", STRICT, BoundInvalid(project_resources, "rec_oil"))
re0008(project_resources) ==
    Result("rec_con", "re0008", STRICT, BoundInvalid(project_resources, "rec_con"))
re0009(project_resources) ==
    Result("rec_ga", "re0009", STRICT, BoundInvalid(project_resources, "rec_ga"))
re0010(project_resources) ==
    Result("rec_gn", "re0010", STRICT, BoundInvalid(project_resources, "rec_gn"))
\* variant: the column name of re0010 left in the return statement
re0011_WrongColumn(project_resources) ==
    Result("rec_gn", "re0011", STRICT, BoundInvalid(project_resources, "res_oil"))
re0011(project_resources) ==
    Result("res_oil", "re0011", STRICT, BoundInvalid(project_resources, "res_oil"))
re0012(project_resources) ==
    Result("res_con", "re0012", STRICT, BoundInvalid(project_resources, "res_con"))
re0013(project_resources) ==
    Result("res_ga", "re0013", STRICT, BoundInvalid(project_resources, "res_ga"))
re0014(project_resources) ==
    Result("res_gn", "re0014", STRICT, BoundInvalid(project_resources, "res_gn"))

\* ---------------------------------------------- shape B: ladder comparison
\* project_resources.loc[uncert_lvl == cmp, [project_id, report_year, col]]
Lookup(rows, cmp, col) ==
    LET sel == SelectSeq(rows, LAMBDA r : r.uncert_lvl = cmp)
    IN [k \in 1..Len(sel) |->
            [project_id |-> sel[k].project_id,
             report_year |-> sel[k].report_year, val |-> sel[k][col]]]

\* variant: how="inner", a left row without a match is dropped
RECURSIVE Merge_Inner(_, _)
Merge_Inner(left, right) ==
    IF left = <<>> THEN <<>>
    ELSE LET r == Head(left)
             m == SelectSeq(right, LAMBDA q : q.project_id = r.project_id
                                           /\ q.report_year = r.report_year)
         IN [k \in 1..Len(m) |-> [row |-> r, cmp |-> m[k].val]]
            \o Merge_Inner(Tail(left), right)

\* left.merge(right, on=["project_id", "report_year"], how="left"): every
\* left row in order, once per matching right row, or once with a missing
\* value when nothing matches; the result is labelled 0..m-1.
RECURSIVE Merge(_, _)
Merge(left, right) ==
    IF left = <<>> THEN <<>>
    ELSE LET r == Head(left)
             m == SelectSeq(right, LAMBDA q : q.project_id = r.project_id
                                           /\ q.report_year = r.report_year)
             joined == IF m = <<>>
                       THEN << [row |-> r, cmp |-> Missing] >>
                       ELSE [k \in 1..Len(m) |-> [row |-> r, cmp |-> m[k].val]]
         IN joined \o Merge(Tail(left), right)

\* variant: the ladder tested with < in place of <=
LadderInvalid_Strict(project_resources, col, base, cmp) ==
    LET merged == Merge(project_resources.rows,
                        Lookup(project_resources.rows, cmp, col))
        sub == {l \in Labels(merged) : At(merged, l).row.uncert_lvl = base}
    IN [l \in sub |->
          LET x == At(merged, l).row[col]
              y == At(merged, l).cmp
          IN ~((~IsNull(x)) /\ (~IsNull(y)) /\ x[1] < y[1])]

\* variant: the comparison made on every joined row, the rung filter left out
LadderInvalid_AllRows(project_resources, col, base, cmp) ==
    LET merged == Merge(project_resources.rows,
                        Lookup(project_resources.rows, cmp, col))
    IN [l \in Labels(merged) |->
          ~Le(At(merged, l).row[col], At(merged, l).cmp)]

\* ~(merged[uncert_lvl == base][col] <= merged[uncert_lvl == base][cmp_col])
LadderInvalid(project_resources, col, base, cmp) ==
    LET merged == Merge(project_resources.rows,
                        Lookup(project_resources.rows, cmp, col))
        sub == {l \in Labels(merged) : At(merged, l).row.uncert_lvl = base}
    IN [l \in sub |-> ~Le(At(merged, l).row[col], At(merged, l).cmp)]

re0015(project_resources) ==
    Result("rec_oil", "re0015", STRICT, LadderInvalid(project_resources, "rec_oil", Low, Mid))
\* variant: re0016 filters the low rung, as re0015 does
re0016_LowBase(project_resources) ==
    Result("rec_oil", "re0016", STRICT, LadderInvalid(project_resources, "rec_oil", Low, High))
re0016(project_resources) ==
    Result("rec_oil", "re0016", STRICT, LadderInvalid(project_resources, "rec_oil", Mid, High))
re0017(project_resources) ==
    Result("rec_con", "re0017", STRICT, LadderInvalid(project_resources, "rec_con", Low, Mid))
re0018(project_resources) ==
    Result("rec_con", "re0018", STRICT, LadderInvalid(project_resources, "rec_con", Mid, High))
re0019(project_resources) ==
    Result("rec_ga", "re0019", STRICT, LadderInvalid(project_resources, "rec_ga", Low, Mid))
re0020(project_resources) ==
    Result("rec_ga", "re0020", STRICT, LadderInvalid(project_resources, "rec_ga", Mid, High))
re0021(project_resources) ==
    Result("rec_gn", "re0021", STRICT, LadderInvalid(project_resources, "rec_gn", Low, Mid))
re0022(project_resources) ==
    Result("rec_gn", "re0022", STRICT, LadderInvalid(project_resources, "rec_gn", Mid, High))

\* ---------------------------------------------------------------- registry
\* the keys of self.rules0, in insertion order
rules0 ==
    << "re0007", "re0008", "re0009", "re0010", "re0011", "re0012", "re0013",
       "re0014", "re0015", "re0016", "re0017", "re0018", "re0019", "re0020",
       "re0021", "re0022" >>

\* a rule function as the dict display {f.__name__: f, ...} sees it: its
\* __name__ and the function object itself
Fn(name, body) == [name |-> name, body |-> body]
RulesLiteral == [k \in 1..Len(rules0) |-> Fn(rules0[k], rules0[k])]

\* the keys of the dict display, in order of first insertion
RECURSIVE DictKeys(_)
DictKeys(fs) ==
    IF fs = <<>> THEN <<>>
    ELSE LET init == DictKeys(SubSeq(fs, 1, Len(fs) - 1))
             n == fs[Len(fs)].name
         IN IF n \in Range(init) THEN init ELSE Append(init, n)

\* self.rules0 = {f.__name__: f, ...}: a key given again keeps its place
\* and takes the later value; the display raises nothing
DictLiteral(fs) ==
    [keys |-> DictKeys(fs),
     funcs |-> [n \in {fs[k].name : k \in 1..Len(fs)} |->
                  fs[CHOOSE k \in 1..Len(fs) :
                        /\ fs[k].name = n
                        /\ \A j \in 1..Len(fs) : fs[j].name = n => j <= k].body],
     exc |-> "none"]

\* func(self.project_resources) for the function registered under name
Call(name, project_resources) ==
    CASE name = "re0007" -> re0007(project_resources)
      [] name = "re0008" -> re0008(project_resources)
      [] name = "re0009" -> re0009(project_resources)
      [] name = "re0010" -> re0010(project_resources)
      [] name = "re0011" -> re0011(project_resources)
      [] name = "re0012" -> re0012(project_resources)
      [] name = "re0013" -> re0013(project_resources)
      [] name = "re0014" -> re0014(project_resources)
      [] name = "re0015" -> re0015(project_resources)
      [] name = "re0016" -> re0016(project_resources)
      [] name = "re0017" -> re0017(project_resources)
      [] name = "re0018" -> re0018(project_resources)
      [] name = "re0019" -> re0019(project_resources)
      [] name = "re0020" -> re0020(project_resources)
      [] name = "re0021" -> re0021(project_resources)
      [] name = "re0022" -> re0022(project_resources)

\* the columns a rule subscripts: the rung column, the tested column and,
\* for a ladder rule, the two join keys
BoundReads(col) == {"uncert_lvl", col}
LadderReads(col) == {"uncert_lvl", "project_id", "report_year", col}
Reads(name) ==
    CASE name = "re0007" -> BoundReads("rec_oil")
      [] name = "re0008" -> BoundReads("rec_con")
      [] name = "re0009" -> BoundReads("rec_ga")
      [] name = "re0010" -> BoundReads("rec_gn")
      [] name = "re0011" -> BoundReads("res_oil")
      [] name = "re0012" -> BoundReads("res_con")
      [] name = "re0013" -> BoundReads("res_ga")
      [] name = "re0014" -> BoundReads("res_gn")
      [] name \in {"re0015", "re0016"} -> LadderReads("rec_oil")
      [] name \in {"re0017", "re0018"} -> LadderReads("rec_con")
      [] name \in {"re0019", "re0020"} -> LadderReads("rec_ga")
      [] name \in {"re0021", "re0022"} -> LadderReads("rec_gn")

\* variant: a rule that also fails on a frame without rows
RuleRaises_Empty(name, project_resources) ==
    \/ project_resources.kind = "none"
    \/ Reads(name) \cap project_resources.lacks # {}
    \/ project_resources.rows = <<>>

\* subscripting None raises TypeError in the first expression of every rule;
\* subscripting a frame with a column it lacks raises KeyError
RuleRaises(name, project_resources) ==
    \/ project_resources.kind = "none"
    \/ Reads(name) \cap project_resources.lacks # {}

RaisedBy(project_resources) ==
    IF project_resources.kind = "none" THEN "TypeError" ELSE "KeyError"

\* the list comprehension over the registry: the rules are called in
\* registry order and the first one that raises ends the run
FirstRaising(project_resources) ==
    LET bad == {k \in 1..Len(rules0) : RuleRaises(rules0[k], project_resources)}
    IN IF bad = {} THEN 0 ELSE CHOOSE k \in bad : \A j \in bad : k <= j

\* variant: a rule that raises is skipped and the loop goes on
CollectResults_Swallow(project_resources) ==
    LET ok == SelectSeq(rules0, LAMBDA n : ~RuleRaises(n, project_resources))
    IN [invoked |-> rules0,
        results |-> [k \in 1..Len(ok) |-> Call(ok[k], project_resources)],
        exc |-> "none"]

\* variant: the registry walked from its last entry to its first
CollectResults_Reversed(project_resources) ==
    LET n == Len(rules0)
        back == [k \in 1..n |-> rules0[n + 1 - k]]
    IN [invoked |-> back,
        results |-> [k \in 1..n |-> Call(back[k], project_resources)],
        exc |-> "none"]

CollectResults(project_resources) ==
    LET r == FirstRaising(project_resources)
        done == IF r = 0 THEN Len(rules0) ELSE r - 1
    IN [invoked |-> SubSeq(rules0, 1, IF r = 0 THEN Len(rules0) ELSE r),
        results |-> [k \in 1..done |-> Call(rules0[k], project_resources)],
        exc |-> IF r = 0 THEN "none" ELSE RaisedBy(project_resources)]

\* variant: a ladder rule joins its comparison column into the caller's frame
AfterRules_InPlace(project_resources) ==
    [project_resources EXCEPT !.rows =
        [k \in 1..Len(@) |-> @[k] @@ [mid_rec_oil |-> Missing]]]

\* every rule rebinds its local name project_resources to the merge result
\* and filters by boolean indexing: the caller's frame is what it was
AfterRules(project_resources) == project_resources

\* str.upper() on a rule id
Upper(name) ==
    CASE name = "re0007" -> "RE0007" [] name = "re0008" -> "RE0008"
      [] name = "re0009" -> "RE0009" [] name = "re0010" -> "RE0010"
      [] name = "re0011" -> "RE0011" [] name = "re0012" -> "RE0012"
      [] name = "re0013" -> "RE0013" [] name = "re0014" -> "RE0014"
      [] name = "re0015" -> "RE0015" [] name = "re0016" -> "RE0016"
      [] name = "re0017" -> "RE0017" [] name = "re0018" -> "RE0018"
      [] name = "re0019" -> "RE0019" [] name = "re0020" -> "RE0020"
      [] name = "re0021" -> "RE0021" [] name = "re0022" -> "RE0022"

\* ------------------------------------------------------------- aggregator
Absent == "<NaN>"

\* astype(str) on one cell of column c
Str(c, v) == IF c = "report_year" THEN ToString(v) ELSE v

\* project_resources[volumetric_columns].copy().astype(str), then
\* .loc[:, volumetric_columns[7:]] = ""
BlankFrame(rows) ==
    [l \in Labels(rows) |->
        [c \in AllCols |->
            IF c \in MeasuredCols THEN "" ELSE Str(c, At(rows, l)[c])]]

\* variant: .loc skips the labels the frame does not have
Misaligned_Never(cells, result) == FALSE

\* result[3].loc[result[3]].index is not contained in the frame's index,
\* or result[0] is not one of its columns: .loc raises KeyError
Misaligned(cells, result) ==
    /\ AnyTrue(result.mask)
    /\ \/ ~(TrueLabels(result.mask) \subseteq DOMAIN cells)
       \/ result.column \notin AllCols

\* variant: the cell assigned with = in place of +=
Accumulate_Overwrite(cells, result) ==
    IF ~AnyTrue(result.mask) THEN cells
    ELSE [l \in DOMAIN cells |->
            IF l \in TrueLabels(result.mask)
            THEN [cells[l] EXCEPT ![result.column] =
                        Upper(result.rule_id) \o ";"]
            ELSE cells[l]]

\* variant: the id put in front of what the cell already holds
Accumulate_Prepend(cells, result) ==
    IF ~AnyTrue(result.mask) THEN cells
    ELSE [l \in DOMAIN cells |->
            IF l \in TrueLabels(result.mask)
            THEN [cells[l] EXCEPT ![result.column] =
                        Upper(result.rule_id) \o ";" \o @]
            ELSE cells[l]]

\* variant: only STRICT results are written to the report
Accumulate_StrictOnly(cells, result) ==
    IF ~AnyTrue(result.mask) \/ result.severity # STRICT THEN cells
    ELSE [l \in DOMAIN cells |->
            IF l \in TrueLabels(result.mask)
            THEN [cells[l] EXCEPT ![result.column] =
                        @ \o Upper(result.rule_id) \o ";"]
            ELSE cells[l]]

\* validation_volumetric.loc[idx, result[0]] += f"{result[1].upper()};"
Accumulate(cells, result) ==
    IF ~AnyTrue(result.mask) THEN cells
    ELSE [l \in DOMAIN cells |->
            IF l \in TrueLabels(result.mask)
            THEN [cells[l] EXCEPT ![result.column] =
                        @ \o Upper(result.rule_id) \o ";"]
            ELSE cells[l]]

\* the for loop over results; "KeyError" as soon as one result is misaligned
RECURSIVE AccumulateAll(_, _)
AccumulateAll(cells, results) ==
    IF results = <<>> THEN [exc |-> "none", cells |-> cells]
    ELSE IF Misaligned(cells, Head(results))
         THEN [exc |-> "KeyError", cells |-> cells]
         ELSE AccumulateAll(Accumulate(cells, Head(results)), Tail(results))

\* validation_volumetric.mask(validation_volumetric == "", np.nan)
MaskEmpty(cells) ==
    [l \in DOMAIN cells |->
        [c \in AllCols |-> IF cells[l][c] = "" THEN Absent ELSE cells[l][c]]]

\* variant: dropna over all of volumetric_columns, identity included
KeptLabels_AllCols(rows, cells) ==
    SelectSeq([p \in 1..Len(rows) |-> Label(p)],
              LAMBDA l : \E c \in AllCols : cells[l][c] # Absent)

\* variant: the surviving rows come out last first
KeptLabels_Reversed(rows, cells) ==
    LET kept == SelectSeq([p \in 1..Len(rows) |-> Label(p)],
                    LAMBDA l : \E c \in MeasuredCols : cells[l][c] # Absent)
    IN [k \in 1..Len(kept) |-> kept[Len(kept) + 1 - k]]

\* dropna(subset=volumetric_columns[7:], how="all"): the labels kept, in order
KeptLabels(rows, cells) ==
    SelectSeq([p \in 1..Len(rows) |-> Label(p)],
              LAMBDA l : \E c \in MeasuredCols : cells[l][c] # Absent)

\* variant: the column dropna left out
KeptColumns_NoDrop(labels, cells) == volumetric_columns

\* dropna(axis=1, how="all"): the columns kept, in order
KeptColumns(labels, cells) ==
    SelectSeq(volumetric_columns,
              LAMBDA c : \E k \in 1..Len(labels) : cells[labels[k]][c] # Absent)

EmptyReport == [columns |-> <<>>, index |-> <<>>, cell |-> <<>>]

\* self.project_resources[self.volumetric_columns] raises on None and on a
\* frame that lacks one of the columns
ProjectionRaises(project_resources) ==
    \/ project_resources.kind = "none"
    \/ AllCols \cap project_resources.lacks # {}

\* RuleEngine._val_results_transform(results)
ValResultsTransform(project_resources, results) ==
    LET rows == project_resources.rows
        acc == AccumulateAll(BlankFrame(rows), results)
        masked == MaskEmpty(acc.cells)
        labels == KeptLabels(rows, masked)
        columns == KeptColumns(labels, masked)
    IN IF ProjectionRaises(project_resources)
       THEN [exc |-> RaisedBy(project_resources), report |-> EmptyReport]
       ELSE IF acc.exc # "none" THEN [exc |-> acc.exc, report |-> EmptyReport]
       ELSE [exc |-> "none",
             report |-> [columns |-> columns, index |-> labels,
                         cell |-> [k \in 1..Len(labels) |->
                                     [c \in Range(columns) |->
                                         masked[labels[k]][c]]]]]

\* variant: the measured columns are blanked in the engine's frame itself
AfterTransform_NoCopy(project_resources) ==
    [project_resources EXCEPT !.rows =
        [k \in 1..Len(@) |->
            [c \in DOMAIN @[k] |->
                IF c \in MeasuredCols THEN Missing ELSE @[k][c]]]]

\* the aggregator works on .copy() of the projection and its dropna calls
\* act on that copy: the engine's frame is what it was
AfterTransform(project_resources) == project_resources

\* ------------------------------------------------------------ state machine
\* last is the outcome of the engine's previous run, if there was one
\* rules0 is the engine's registry as __init__ built it
\* files, db, log and locals belong to the commands of esdc.py: the files of the
\* working directory, the tables loaded into esdc.db in load order, the log
\* records written, and the local variables of the command that runs
VARIABLES project_resources, pc, invoked, results, report, exc, last, registry,
          files, db, log, locals
engine == <<project_resources, invoked, results, report, last, registry>>
io == <<files, db, log, locals>>
vars == <<engine, pc, exc, io>>

NoRun == [has |-> FALSE, report |-> EmptyReport]

\* no command of esdc.py is running
NoLocals == [command |-> "none"]
IdleIO == files = {} /\ db = <<>> /\ log = <<>> /\ locals = NoLocals

\* RuleEngine(project_resources): the frame run_validation got from
\* _run_query, or None when the query failed
Init ==
    /\ \/ project_resources = NoFrame
       \/ \E ids \in {t \in IdSeqs(MaxRows) : DistinctIds(t)} :
            \/ project_resources = Frame(Skeleton(ids))
            \/ \E d \in Perturbations(Len(ids)) :
                  project_resources = Frame(Perturb(Skeleton(ids), d))
            \/ \E c \in AllCols :
                  project_resources = Lacking(Skeleton(ids), c)
    /\ pc = "constructed"
    /\ invoked = <<>>
    /\ results = <<>>
    /\ report = EmptyReport
    /\ exc = "none"
    /\ last = NoRun
    /\ registry = [source |-> RulesLiteral, dict |-> DictLiteral(RulesLiteral)]
    /\ IdleIO

\* results = [func(self.project_resources) for _, func in iter_rules0]
RunRules ==
    /\ pc = "constructed"
    /\ \E out \in {CollectResults(project_resources)} :
          /\ invoked' = out.invoked
          /\ results' = out.results
          /\ exc' = out.exc
          /\ pc' = IF out.exc = "none" THEN "collected" ELSE "raised"
    /\ project_resources' = AfterRules(project_resources)
    /\ UNCHANGED <<report, last, registry, io>>

\* return self._val_results_transform(results)
Transform ==
    /\ pc = "collected"
    /\ \E out \in {ValResultsTransform(project_resources, results)} :
          IF out.exc # "none"
          THEN /\ pc' = "raised"
               /\ exc' = out.exc
               /\ UNCHANGED <<report, project_resources>>
          ELSE /\ pc' = "returned"
               /\ report' = out.report
               /\ project_resources' = AfterTransform(project_resources)
               /\ UNCHANGED exc
    /\ UNCHANGED <<invoked, results, last, registry, io>>

\* engine.run() called once more on the same engine
RunAgain ==
    /\ pc = "returned"
    /\ last' = [has |-> TRUE, report |-> report]
    /\ pc' = "constructed"
    /\ invoked' = <<>>
    /\ results' = <<>>
    /\ report' = EmptyReport
    /\ UNCHANGED <<project_resources, exc, registry, io>>

Next == RunRules \/ Transform \/ RunAgain

Spec == Init /\ [][Next]_vars

\* ------------------------------------- frames that may repeat a row identity
MaxAnyRows == 3

\* the query may hand the engine a frame in which a (project, year, rung)
\* occurs more than once: nothing in _run_query or RuleEngine excludes it
AnyIds == {<<"P1", Low>>, <<"P1", Mid>>, <<"P1", High>>, <<"P2", Low>>}
AnyCols == {"rec_oil", "res_oil"}

InitAnyRows ==
    /\ \E ids \in {t \in IdSeqs(MaxAnyRows) : Range(t) \subseteq AnyIds} :
          \/ project_resources = Frame(Skeleton(ids))
          \/ \E d \in {e \in Perturbations(Len(ids)) : e[2] \in AnyCols} :
                project_resources = Frame(Perturb(Skeleton(ids), d))
    /\ pc = "constructed"
    /\ invoked = <<>>
    /\ results = <<>>
    /\ report = EmptyReport
    /\ exc = "none"
    /\ last = NoRun
    /\ registry = [source |-> RulesLiteral, dict |-> DictLiteral(RulesLiteral)]
    /\ IdleIO

SpecAnyRows == InitAnyRows /\ [][Next]_vars

\* ------------------------------------------------- construction of a registry
\* rule functions a registry display may be written with: two names, and two
\* different functions under each name
Functions == {Fn(n, b) : n \in {"re0007", "re0008"}, b \in {"a", "b"}}

RECURSIVE Displays(_)
Displays(n) ==
    IF n = 0 THEN {<<>>}
    ELSE LET prev == Displays(n - 1)
         IN prev \cup
            { Append(s, f) : s \in {t \in prev : Len(t) = n - 1},
                             f \in Functions }

NotBuilt == [keys |-> <<>>, funcs |-> <<>>, exc |-> "none"]

InitRegistry ==
    /\ \E fs \in Displays(MaxPairs) :
          registry = [source |-> fs, dict |-> NotBuilt]
    /\ project_resources = Frame(<<>>)
    /\ pc = "new"
    /\ invoked = <<>>
    /\ results = <<>>
    /\ report = EmptyReport
    /\ exc = "none"
    /\ last = NoRun
    /\ IdleIO

\* RuleEngine.__init__: self.rules0 = {...}
Construct ==
    /\ pc = "new"
    /\ \E d \in {DictLiteral(registry.source)} :
          /\ registry' = [registry EXCEPT !.dict = d]
          /\ exc' = d.exc
          /\ pc' = IF d.exc = "none" THEN "constructed" ELSE "failed"
    /\ UNCHANGED <<project_resources, invoked, results, report, last, io>>

NextRegistry == Construct

SpecRegistry == InitRegistry /\ [][NextRegistry]_vars

\* ------------------------------------------------------ esdc.py: reload
\* the engine plays no part in the commands of esdc.py
IdleEngine ==
    /\ project_resources = Frame(<<>>)
    /\ invoked = <<>>
    /\ results = <<>>
    /\ report = EmptyReport
    /\ last = NoRun
    /\ registry = [source |-> RulesLiteral, dict |-> DictLiteral(RulesLiteral)]

\* TABLES, by the values of the TableName members
TABLES == << "project_resources", "project_timeseries" >>

\* the values of FileType
CSV == "csv"
JSON == "json"
ZIP == "zip"
FileTypes == {CSV, JSON, ZIP}

\* f"{table.value}.{filetype}"
FileName(table, filetype) == table \o "." \o filetype

\* a local name that no statement has bound yet
Unbound == "<unbound>"

Record(level, msg) == [level |-> level, msg |-> msg]

\* the files reload may find in the working directory
ReloadFiles == {FileName(TABLES[k], f) : k \in 1..Len(TABLES), f \in FileTypes}

InitReload ==
    /\ files \in SUBSET ReloadFiles
    /\ \E filetype \in FileTypes :
          locals = [command |-> "reload", filetype |-> filetype, i |-> 1,
                    filename |-> Unbound]
    /\ db = <<>>
    /\ log = <<>>
    /\ pc = "running"
    /\ exc = "none"
    /\ IdleEngine

\* one pass of the loop "for table in TABLES" in reload; the files that exist
\* hold what fetch saved, so that loading them succeeds
ReloadTable ==
    /\ pc = "running"
    /\ locals.command = "reload"
    /\ locals.i <= Len(TABLES)
    /\ LET table == TABLES[locals.i]
           filetype == locals.filetype
           last_pass == locals.i = Len(TABLES)
       IN IF FileName(table, filetype) \in files
          THEN /\ locals' = [locals EXCEPT !.filename = FileName(table, filetype),
                                           !.i = @ + 1]
               /\ IF filetype \in {CSV, JSON}
                  THEN /\ db' = Append(db, table)
                       /\ UNCHANGED log
                  ELSE /\ log' = Append(log, Record("debug",
                              "failed to load " \o FileName(table, filetype)
                              \o ". Unknown " \o filetype \o " format"))
                       /\ UNCHANGED db
               /\ pc' = IF last_pass THEN "done" ELSE "running"
               /\ UNCHANGED exc
          ELSE IF locals.filename = Unbound
               THEN /\ exc' = "UnboundLocalError"
                    /\ pc' = "raised"
                    /\ UNCHANGED <<locals, db, log>>
               ELSE /\ log' = Append(log, Record("warning",
                           "File " \o locals.filename \o " is not found."))
                    /\ locals' = [locals EXCEPT !.i = @ + 1]
                    /\ pc' = IF last_pass THEN "done" ELSE "running"
                    /\ UNCHANGED <<db, exc>>
    /\ UNCHANGED <<files, engine>>

NextReload == ReloadTable

SpecReload == InitReload /\ [][NextReload]_vars

\* --------------------------------------------- esdc.py: esdc_url_builder
MaxVerbose == 3

\* the default of the parameter verbose
DefaultVerbose == 3

BASE_API_URL_V2 == "https://esdc.skkmigas.go.id/api/v2"

\* the members of ApiVer by the type and the text of their values
V1 == [type |-> "int", text |-> "1"]
V2 == [type |-> "str", text |-> "api/v2"]
ApiVer == {V1, V2}

\* the values of TableName
PROJECT_RESOURCES == "project_resources"
FIELD_RESOURCES == "field_resources"
WA_RESOURCES == "wa_resources"
NKRI_RESOURCES == "nkri_resources"
PROJECT_TIMESERIES == "project_timeseries"
TableName ==
    {PROJECT_RESOURCES, FIELD_RESOURCES, WA_RESOURCES, NKRI_RESOURCES,
     PROJECT_TIMESERIES}

\* the dict "tables" of esdc_url_builder
UrlTables ==
    [t \in {PROJECT_RESOURCES, PROJECT_TIMESERIES} |->
        IF t = PROJECT_RESOURCES THEN "project-resources"
        ELSE "project-timeseries"]

\* os.getenv("ESDC_URL"): None, or the value the environment gives
EnvUnset == "<unset>"
EnvUrls == {EnvUnset, "https://esdc.skkmigas.go.id/"}

\* report_year: None, or a year
NoYear == <<>>
Year(y) == <<y>>
ReportYears == {NoYear, Year(2022), Year(2024)}

\* esdc_url_builder(table_name, api_ver, verbose, report_year, file_type)
\* with ESDC_URL = env
esdc_url_builder(env, table_name, api_ver, verbose, report_year, file_type) ==
    LET url0 == IF env = EnvUnset THEN BASE_API_URL_V2 ELSE env
        url1 == url0 \o api_ver.text
        url2 == url1 \o "/" \o UrlTables[table_name]
                     \o "?verbose=" \o ToString(verbose)
        year == IF table_name = PROJECT_TIMESERIES THEN Year(2023)
                ELSE report_year
        url3 == IF year # NoYear
                THEN url2 \o "&report-year=" \o ToString(year[1]) ELSE url2
    IN IF api_ver.type # "str" THEN [exc |-> "TypeError", url |-> Unbound]
       ELSE IF table_name \notin DOMAIN UrlTables
       THEN [exc |-> "KeyError", url |-> Unbound]
       ELSE [exc |-> "none", url |-> url3 \o "&output=" \o file_type]

InitUrl ==
    /\ \E env \in EnvUrls, table_name \in TableName, api_ver \in ApiVer,
          verbose \in 0..MaxVerbose, report_year \in ReportYears,
          file_type \in FileTypes :
          locals = [command |-> "esdc_url_builder", env |-> env,
                    table_name |-> table_name, api_ver |-> api_ver,
                    verbose |-> verbose, report_year |-> report_year,
                    file_type |-> file_type, url |-> Unbound]
    /\ files = {}
    /\ db = <<>>
    /\ log = <<>>
    /\ pc = "called"
    /\ exc = "none"
    /\ IdleEngine

BuildUrl ==
    /\ pc = "called"
    /\ locals.command = "esdc_url_builder"
    /\ \E out \in {esdc_url_builder(locals.env, locals.table_name,
                       locals.api_ver, locals.verbose, locals.report_year,
                       locals.file_type)} :
          /\ locals' = [locals EXCEPT !.url = out.url]
          /\ exc' = out.exc
          /\ pc' = IF out.exc = "none" THEN "returned" ELSE "raised"
    /\ log' = IF locals.env = EnvUnset
              THEN Append(log, Record("info",
                      "Environment Variables is not found. Url set to: "
                      \o "https://esdc.skkmigas.go.id/api/v2/"))
              ELSE log
    /\ UNCHANGED <<files, db, engine>>

NextUrl == BuildUrl

SpecUrl == InitUrl /\ [][NextUrl]_vars

\* ------------------------------------------------ esdc.py: load_esdc_data
\* what esdc_downloader returns: None, or bytes that parse as the file type
\* asked for, or bytes that do not
NoData == "<None>"
Downloads == {NoData, "rows", "garbage"}

Downloading(table) == Record("info", "Downloading " \o table \o " table.")
DownloadingFrom(url) == Record("info", "downloading from " \o url)
FailedDownload(table) ==
    Record("warning", "Failed to download " \o table \o " data.")
Saving(table, filetype) ==
    Record("debug", "Save data as " \o table \o "." \o filetype)
Loaded(table) ==
    Record("info", "Table " \o table \o " is loaded into database.")

\* variant: continue in place of break
AfterFailedDownload_Continue(i) == i + 1

\* break: the loop over TABLES is left, no later table is visited
AfterFailedDownload(i) == Len(TABLES) + 1

InitLoad ==
    /\ files \in SUBSET ReloadFiles
    /\ \E filetype \in FileTypes, to_file \in BOOLEAN, env \in EnvUrls :
          locals = [command |-> "load_esdc_data", filetype |-> filetype,
                    to_file |-> to_file, env |-> env, i |-> 1,
                    step |-> "download", data |-> Unbound]
    /\ db = <<>>
    /\ log = <<>>
    /\ pc = "running"
    /\ exc = "none"
    /\ IdleEngine

\* the head of a pass of "for table in TABLES": the url is built, the
\* download is made and a failed download leaves the loop
Download ==
    /\ pc = "running"
    /\ locals.command = "load_esdc_data"
    /\ locals.step = "download"
    /\ locals.i <= Len(TABLES)
    /\ \E data \in Downloads :
        LET table == TABLES[locals.i]
            url == esdc_url_builder(locals.env, table, V2, DefaultVerbose, NoYear,
                                    locals.filetype).url
            said == log \o << Downloading(table), DownloadingFrom(url) >>
            next == AfterFailedDownload(locals.i)
        IN IF data = NoData
           THEN /\ log' = Append(said, FailedDownload(table))
                /\ locals' = [locals EXCEPT !.data = data, !.i = next]
                /\ pc' = IF next > Len(TABLES) THEN "done" ELSE "running"
           ELSE /\ log' = said
                /\ locals' = [locals EXCEPT !.data = data,
                       !.step = IF locals.to_file THEN "save" ELSE "load"]
                /\ pc' = "running"
    /\ UNCHANGED <<files, db, exc, engine>>

\* if to_file: open(table.value + "." + filetype.value, "wb").write(data)
SaveFile ==
    /\ pc = "running"
    /\ locals.command = "load_esdc_data"
    /\ locals.step = "save"
    /\ log' = Append(log, Saving(TABLES[locals.i], locals.filetype))
    /\ files' = files \cup {FileName(TABLES[locals.i], locals.filetype)}
    /\ locals' = [locals EXCEPT !.step = "load"]
    /\ UNCHANGED <<db, pc, exc, engine>>

\* the csv or json branch with load_data_to_db, and the end of the pass;
\* bytes that do not parse raise out of load_esdc_data, a zip is not loaded
LoadDb ==
    /\ pc = "running"
    /\ locals.command = "load_esdc_data"
    /\ locals.step = "load"
    /\ LET table == TABLES[locals.i]
           last_pass == locals.i = Len(TABLES)
       IN IF locals.filetype \in {CSV, JSON} /\ locals.data = "garbage"
          THEN /\ exc' = "ValueError"
               /\ pc' = "raised"
               /\ UNCHANGED <<db, log, locals>>
          ELSE /\ IF locals.filetype \in {CSV, JSON}
                  THEN /\ db' = Append(db, table)
                       /\ log' = Append(log, Loaded(table))
                  ELSE UNCHANGED <<db, log>>
               /\ locals' = [locals EXCEPT !.i = @ + 1, !.step = "download"]
               /\ pc' = IF last_pass THEN "done" ELSE "running"
               /\ UNCHANGED exc
    /\ UNCHANGED <<files, engine>>

NextLoad == Download \/ SaveFile \/ LoadDb

SpecLoad == InitLoad /\ [][NextLoad]_vars

\* ------------------------------------------------------------------ claims
Rows == project_resources.rows
IsFrame == project_resources.kind = "frame"

\* what each registry position is meant to check: column, base rung and,
\* for the ladder rules, comparison rung
NumBound == 8
CheckedColumn ==
    << "rec_oil", "rec_con", "rec_ga", "rec_gn",
       "res_oil", "res_con", "res_ga", "res_gn",
       "rec_oil", "rec_oil", "rec_con", "rec_con",
       "rec_ga", "rec_ga", "rec_gn", "rec_gn" >>
IsBound(k) == k <= NumBound
IsLadder(k) == k > NumBound
BaseRungOf(k) == IF IsBound(k) \/ k % 2 = 1 THEN Low ELSE Mid
CmpRungOf(k) == IF k % 2 = 1 THEN Mid ELSE High
Collected == 1..Len(results)

SameGroup(a, b) ==
    a.project_id = b.project_id /\ a.report_year = b.report_year
\* labels of the comparison-rung rows of the group of the row labelled l
Partners(k, l) ==
    {m \in RungLabels(Rows, CmpRungOf(k)) : SameGroup(At(Rows, l), At(Rows, m))}

Flagged(k, l) == l \in DOMAIN results[k].mask /\ results[k].mask[l]
Cleared(k, l) == l \in DOMAIN results[k].mask /\ ~results[k].mask[l]

\* the cell that the rules at the positions in S leave, in registry order
RECURSIVE Joined(_, _)
Joined(S, k) ==
    IF k > Len(rules0) THEN ""
    ELSE (IF k \in S THEN Upper(rules0[k]) \o ";" ELSE "") \o Joined(S, k + 1)

\* the report cell text holds the upper-cased id of the rule at position k
Holds(text, c, k) ==
    \E S \in SUBSET {j \in Collected : results[j].column = c} :
        k \in S /\ text = Joined(S, 1)

ReportPos(l) == {k \in 1..Len(report.index) : report.index[k] = l}
InReport(l) == ReportPos(l) # {}
ReportCell(l, c) == report.cell[CHOOSE k \in ReportPos(l) : TRUE][c]
ReportCols == Range(report.columns)

\* C1: every bound rule's mask is True at each low-rung row whose checked
\* column holds a non-null value below 0 and False at each low-rung row whose
\* checked column holds a non-null value of at least 0.
C1_BoundRuleCorrect ==
    \A k \in Collected : IsBound(k) =>
        \A l \in RungLabels(Rows, Low) :
            LET v == At(Rows, l)[CheckedColumn[k]]
            IN ~IsNull(v) =>
                  IF v[1] < 0 THEN Flagged(k, l) ELSE Cleared(k, l)

C1_Witness ==
    /\ Len(results) >= NumBound
    /\ \E k \in 1..NumBound : \E l, m \in RungLabels(Rows, Low) :
          /\ At(Rows, l)[CheckedColumn[k]] = Num(-5) /\ Flagged(k, l)
          /\ At(Rows, m)[CheckedColumn[k]] = Num(10) /\ Cleared(k, m)

\* C2: a null checked value is never flagged: the mask is False there, no
\* rule raises, and the rule's id is not in that row's report cell.
C2_NullNeverFlagged ==
    \A k \in Collected : \A l \in RungLabels(Rows, BaseRungOf(k)) :
        IsNull(At(Rows, l)[CheckedColumn[k]]) =>
            /\ Cleared(k, l)
            /\ pc # "raised"
            /\ (pc = "returned" /\ InReport(l) /\ CheckedColumn[k] \in ReportCols)
                   => ~Holds(ReportCell(l, CheckedColumn[k]), CheckedColumn[k], k)

\* C3: a ladder rule's mask is False at every base-rung row whose group has
\* no row at the comparison rung, and no exception is raised.
C3_MissingRungNotFlagged ==
    \A k \in Collected : IsLadder(k) =>
        \A l \in RungLabels(Rows, BaseRungOf(k)) :
            Partners(k, l) = {} => (Cleared(k, l) /\ pc # "raised")

\* C4: when base and comparison rung are both present with non-null values,
\* the ladder mask at the base-rung row is True exactly if base > comparison.
C4_LadderIffGreater ==
    \A k \in Collected : IsLadder(k) =>
        \A l \in RungLabels(Rows, BaseRungOf(k)) : \A m \in Partners(k, l) :
            LET b == At(Rows, l)[CheckedColumn[k]]
                c == At(Rows, m)[CheckedColumn[k]]
            IN (~IsNull(b) /\ ~IsNull(c)) =>
                  IF b[1] > c[1] THEN Flagged(k, l) ELSE Cleared(k, l)

C4_Witness ==
    /\ Len(results) = Len(rules0)
    /\ \E k \in Collected : IsLadder(k) /\
          \E l \in RungLabels(Rows, BaseRungOf(k)) : \E m \in Partners(k, l) :
             /\ At(Rows, l)[CheckedColumn[k]] = Num(15)
             /\ At(Rows, m)[CheckedColumn[k]] = Num(10)
             /\ Flagged(k, l)
             /\ \E j \in Collected \ {k} :
                   /\ IsLadder(j) /\ BaseRungOf(j) = BaseRungOf(k)
                   /\ At(Rows, l)[CheckedColumn[j]] = At(Rows, m)[CheckedColumn[j]]
                   /\ Cleared(j, l)

\* C5: aggregation completeness: wherever a rule's mask is True the report
\* has that row, and its cell under the rule's column holds the rule's
\* upper-cased id, however many rules fire on the same cell.
C5_AggregationComplete ==
    pc = "returned" =>
        \A k \in Collected : \A l \in TrueLabels(results[k].mask) :
            /\ InReport(l)
            /\ results[k].column \in ReportCols
            /\ Holds(ReportCell(l, results[k].column), results[k].column, k)

C5_Witness ==
    /\ pc = "returned"
    /\ \E l \in Labels(Rows) : \E c \in MeasuredCols :
          /\ Cardinality({k \in Collected :
                 results[k].column = c /\ Flagged(k, l)}) = 2
          /\ Cardinality({k \in Collected : Flagged(k, l)}) = 2

\* C6: a row at which no rule's mask is True is not in the report returned by
\* run, and every report row has a non-absent measured cell.
C6_RowPruning ==
    pc = "returned" =>
        /\ \A l \in Labels(Rows) :
              (\A k \in Collected : ~Flagged(k, l)) => ~InReport(l)
        /\ \A k \in 1..Len(report.index) :
              \E c \in MeasuredCols \cap ReportCols : report.cell[k][c] # Absent

C6_Witness ==
    /\ pc = "returned"
    /\ Len(report.index) = 1
    /\ Len(Rows) = 2
    /\ \E l \in Labels(Rows) : \A k \in Collected : ~Flagged(k, l)

\* C7: a measured column on which no rule targeting it has a True mask entry
\* is not in the report returned by run, and every measured column of the
\* report has a non-absent cell.
C7_ColumnPruning ==
    pc = "returned" =>
        /\ \A c \in MeasuredCols :
              (\A k \in Collected :
                  results[k].column = c => ~AnyTrue(results[k].mask))
                  => c \notin ReportCols
        /\ \A c \in MeasuredCols \cap ReportCols :
              \E k \in 1..Len(report.index) : report.cell[k][c] # Absent

C7_Witness ==
    /\ pc = "returned"
    /\ MeasuredCols \cap ReportCols = {"rec_ga"}
    /\ \E k \in Collected :
          results[k].column = "rec_oil" /\ DOMAIN results[k].mask # {}

\* C8: the seven identity columns are in every report the aggregator returns.
C8_IdentityColumnsKept ==
    pc = "returned" => IdentityCols \subseteq ReportCols

\* C9: when the dataset is None or has zero rows, run returns an empty report
\* at once: no registered rule is invoked and nothing is raised.
C9_EmptyShortCircuit ==
    (project_resources.kind = "none" \/ Rows = <<>>) =>
        /\ invoked = <<>>
        /\ pc # "raised"
        /\ report.index = <<>>

\* C10: on a frame with zero rows run does not raise, every rule yields an
\* empty mask, the run can always proceed to its return, and the report
\* returned has zero rows.
C10_ZeroRowsSafe ==
    (IsFrame /\ Rows = <<>> /\ project_resources.lacks = {}) =>
        /\ pc # "raised"
        /\ \A k \in Collected : DOMAIN results[k].mask = {}
        /\ pc \in {"constructed", "collected"} => ENABLED Next
        /\ pc = "returned" => (report.index = <<>> /\ Len(results) = Len(rules0))

C10_Witness ==
    /\ IsFrame /\ Rows = <<>> /\ project_resources.lacks = {}
    /\ pc = "returned"
    /\ Len(results) = Len(rules0)
    /\ report.index = <<>>

\* the columns the rule at registry position k has to find in the frame
NeededBy(k) ==
    {"uncert_lvl", CheckedColumn[k]} \cup
        (IF IsLadder(k) THEN {"project_id", "report_year"} ELSE {})
Fails(k) == ~IsFrame \/ NeededBy(k) \cap project_resources.lacks # {}

\* C11: when a registered rule raises, the exception leaves run and no
\* report is returned; a report is returned only after every registered rule
\* has returned its result and each result has been incorporated.
C11_AllOrNothing ==
    /\ (\E k \in 1..Len(rules0) : Fails(k)) =>
          /\ pc \in {"constructed", "raised"}
          /\ pc = "raised" => exc # "none"
          /\ report = EmptyReport
          /\ ~last.has
    /\ pc = "returned" =>
          /\ exc = "none"
          /\ invoked = rules0
          /\ Len(results) = Len(rules0)
          /\ \A k \in Collected :
                /\ results[k].rule_id = rules0[k]
                /\ \A l \in TrueLabels(results[k].mask) :
                      /\ InReport(l)
                      /\ CheckedColumn[k] \in ReportCols
                      /\ Holds(ReportCell(l, CheckedColumn[k]),
                               CheckedColumn[k], k)

C11_Witness ==
    /\ pc = "raised"
    /\ exc = "KeyError"
    /\ project_resources.lacks = {"res_oil"}
    /\ Len(Rows) = 2
    /\ Len(results) = 4
    /\ invoked = SubSeq(rules0, 1, 5)

\* C12: every further run of the same engine returns the report the run
\* before it returned: same rows, same columns, same cell strings, same order.
C12_Idempotent ==
    (pc = "returned" /\ last.has) => report = last.report

C12_Witness ==
    /\ pc = "returned"
    /\ last.has
    /\ Len(report.index) = 2
    /\ report = last.report

\* C13: no step of a run changes the engine's dataset: rows, columns, row
\* labels and cell values stay as they were.
C13_NoMutation == [][project_resources' = project_resources]_vars

C13_Witness ==
    /\ pc = "returned"
    /\ last.has
    /\ \E k \in Collected : IsLadder(k) /\ AnyTrue(results[k].mask)
    /\ \E l \in Labels(Rows) : At(Rows, l).rec_oil = Num(15)

\* the ids, in registry order, of the rules meant for column c that flag l
Expected(l, c) ==
    Joined({k \in Collected : CheckedColumn[k] = c /\ Flagged(k, l)}, 1)

\* C14: every non-absent report cell is the concatenation, in registry order,
\* of the upper-cased id and ";" of exactly the rules that target the cell's
\* column and whose mask is True at the cell's row.
C14_CellContent ==
    pc = "returned" =>
        \A k \in 1..Len(report.index) : \A c \in MeasuredCols \cap ReportCols :
            report.cell[k][c] # Absent =>
                report.cell[k][c] = Expected(report.index[k], c)

C14_Witness ==
    /\ pc = "returned"
    /\ \E k \in 1..Len(report.index) :
          /\ At(Rows, report.index[k]).uncert_lvl = Low
          /\ "rec_oil" \in ReportCols
          /\ report.cell[k]["rec_oil"] = "RE0007;RE0015;"

\* C15: the report's rows are in the order the rows have in the dataset.
C15_OrderPreserved ==
    pc = "returned" =>
        \A a, b \in 1..Len(report.index) :
            a < b => report.index[a] < report.index[b]

C15_Witness ==
    /\ pc = "returned"
    /\ Len(report.index) = 2
    /\ report.index[1] < report.index[2]
    /\ At(Rows, report.index[1]).uncert_lvl = Mid
    /\ At(Rows, report.index[2]).uncert_lvl = Low

SharedId(fs) == \E a, b \in 1..Len(fs) : a # b /\ fs[a].name = fs[b].name

Scenario ==
    Frame(Perturb(Skeleton(<< <<"P1", Low>>, <<"P1", Mid>> >>),
                  <<1, "rec_oil", Num(15)>>))

\* C17: on the two-row scenario run returns exactly the low-rung row, with
\* rec_oil as the only measured column next to the identity columns, and the
\* rec_oil cell reads "RE0015;".
C17_Scenario ==
    (project_resources = Scenario /\ pc = "returned") =>
        /\ report.index = <<0>>
        /\ MeasuredCols \cap ReportCols = {"rec_oil"}
        /\ IdentityCols \subseteq ReportCols
        /\ report.cell[1]["rec_oil"] = "RE0015;"

NothingFlagged == \A k \in Collected : ~AnyTrue(results[k].mask)

\* C18: when all rules have run on a frame with the expected columns and no
\* mask has a True entry, run raises nothing and returns a report with zero
\* rows; and a returned report with zero rows comes from a run in which every
\* rule returned and none flagged a row.
C18_NoFindingsEmptyReport ==
    /\ (IsFrame /\ project_resources.lacks = {}
          /\ Len(results) = Len(rules0) /\ NothingFlagged) =>
             /\ pc # "raised"
             /\ pc = "collected" => ENABLED Transform
             /\ pc = "returned" => report.index = <<>>
    /\ (pc = "returned" /\ report.index = <<>>) =>
             /\ exc = "none"
             /\ Len(results) = Len(rules0)
             /\ NothingFlagged

C18_Witness ==
    /\ pc = "returned"
    /\ report.index = <<>>
    /\ NothingFlagged
    /\ \E l, m \in Labels(Rows) :
          /\ At(Rows, l).uncert_lvl = Mid /\ At(Rows, m).uncert_lvl = High
          /\ SameGroup(At(Rows, l), At(Rows, m))

\* the same results with the severity of each replaced
Relabel(rs, sev) == [k \in DOMAIN rs |-> [rs[k] EXCEPT !.severity = sev[k]]]
SeverityChoices ==
    {[k \in 1..Len(rules0) |-> s] : s \in Severities \ {STRICT}} \cup
    {[k \in 1..Len(rules0) |->
        IF k % 3 = 0 THEN STRICT ELSE IF k % 3 = 1 THEN WARNING ELSE INFO]}

\* C19: the report does not depend on severity: the results of a run with
\* their severities replaced by WARNING, by INFO or by a mix of the three
\* aggregate to the report the run returned.
C19_SeverityBlind ==
    pc = "returned" =>
        \A sev \in SeverityChoices :
            ValResultsTransform(project_resources, Relabel(results, sev))
                = [exc |-> "none", report |-> report]

C19_Witness ==
    /\ pc = "returned"
    /\ \A k \in Collected : results[k].severity = STRICT
    /\ \E k \in 1..Len(report.index) :
          /\ "res_gn" \in ReportCols
          /\ report.cell[k]["res_gn"] = "RE0014;"

\* C20: every rule returns the column whose values it tests and the id it is
\* registered under; re0011 returns res_oil and re0012 returns res_con.
C20_ColumnAndId ==
    \A k \in Collected :
        /\ results[k].rule_id = rules0[k]
        /\ results[k].column = CheckedColumn[k]
        /\ k = 5 => results[k].column = "res_oil"
        /\ k = 6 => results[k].column = "res_con"
        /\ \A l \in RungLabels(Rows, BaseRungOf(k)) :
              LET v == At(Rows, l)[results[k].column]
              IN /\ (IsBound(k) /\ ~IsNull(v)) =>
                        IF v[1] < 0 THEN Flagged(k, l) ELSE Cleared(k, l)
                 /\ IsLadder(k) => \A m \in Partners(k, l) :
                        LET w == At(Rows, m)[results[k].column]
                        IN (~IsNull(v) /\ ~IsNull(w)) =>
                              IF v[1] > w[1] THEN Flagged(k, l)
                              ELSE Cleared(k, l)

C20_Witness ==
    /\ Len(results) = Len(rules0)
    /\ results[5].column = "res_oil"
    /\ results[6].column = "res_con"
    /\ \E l \in RungLabels(Rows, Low) :
          /\ At(Rows, l).res_oil = Num(-5)
          /\ Flagged(5, l)
          /\ Cleared(6, l)

\* C21: in reload, every table passed whose file "<table>.<filetype>" does not
\* exist has a warning naming that file in the log, and no exception is
\* raised, also when the first table's file is the missing one.
C21_MissingFileWarned ==
    locals.command = "reload" =>
        /\ exc = "none"
        /\ \A k \in 1..(locals.i - 1) :
              FileName(TABLES[k], locals.filetype) \notin files =>
                  Record("warning", "File "
                         \o FileName(TABLES[k], locals.filetype)
                         \o " is not found.") \in Range(log)

\* C22: esdc_url_builder with ESDC_URL unset, table PROJECT_RESOURCES, api
\* v2, verbose 3, no report year and csv returns exactly
\* "https://esdc.skkmigas.go.id/api/v2/project-resources?verbose=3&output=csv".
C22_DefaultUrl ==
    ( /\ locals.command = "esdc_url_builder"
      /\ pc # "called"
      /\ locals.env = EnvUnset
      /\ locals.table_name = PROJECT_RESOURCES
      /\ locals.api_ver = V2
      /\ locals.verbose = DefaultVerbose
      /\ locals.report_year = NoYear
      /\ locals.file_type = CSV ) =>
        /\ pc = "returned"
        /\ locals.url = "https://esdc.skkmigas.go.id/api/v2/project-resources"
                        \o "?verbose=3&output=csv"

\* the dataset invariant: at most one row per (project_id, report_year,
\* uncert_lvl)
OnePerRung(rows) ==
    \A a, b \in 1..Len(rows) :
        a # b => ~(SameGroup(rows[a], rows[b])
                   /\ rows[a].uncert_lvl = rows[b].uncert_lvl)

\* C23: in one run on a frame every registered rule is invoked exactly once,
\* in registry order, each on the engine's frame; the result list has the
\* order of the registry, and aggregation starts only after the last rule
\* has returned.
C23_EveryRuleOnceInOrder ==
    /\ pc = "constructed" => report = EmptyReport /\ results = <<>>
    /\ (IsFrame /\ pc # "constructed") =>
          /\ invoked = rules0
          /\ Len(results) = Len(rules0)
          /\ \A k \in Collected :
                /\ results[k].rule_id = rules0[k]
                /\ results[k] = Call(rules0[k], project_resources)

C23_Witness ==
    /\ pc = "returned"
    /\ Rows # <<>>
    /\ invoked = rules0
    /\ [k \in Collected |-> results[k].rule_id] = rules0
    /\ report.index # <<>>

OffFrame == {k \in Collected : ~(TrueLabels(results[k].mask) \subseteq Labels(Rows))}

\* C25: when a result's mask is True at a label that is not a row label of
\* the dataset, the aggregator raises KeyError: no report is returned and
\* no rule id is written to any row.
C25_MisalignedRaises ==
    (Len(results) = Len(rules0) /\ OffFrame # {}) =>
        /\ pc \in {"collected", "raised"}
        /\ report = EmptyReport
        /\ pc = "raised" => exc = "KeyError"
        /\ pc = "collected" =>
              ValResultsTransform(project_resources, results)
                  = [exc |-> "KeyError", report |-> EmptyReport]

C25_Witness ==
    /\ pc = "raised"
    /\ exc = "KeyError"
    /\ OffFrame # {}
    /\ report = EmptyReport

\* the value the rule at position k compares the row labelled l against: the
\* checked column of its comparison-rung partner, missing without a partner
PartnerVal(k, l) ==
    IF Partners(k, l) = {} THEN Missing
    ELSE At(Rows, CHOOSE m \in Partners(k, l) : TRUE)[CheckedColumn[k]]

\* C26: on a dataset with at most one row per (project, year, rung), labelled
\* 0..n-1, the left join of every ladder rule has the dataset's n rows in the
\* dataset's order, every mask entry is the comparison made for the base-rung
\* row with that label, and the aggregator writes the rule id to exactly the
\* rows the rule flagged.
C26_LadderAlignment ==
    OnePerRung(Rows) =>
        \A k \in Collected : IsLadder(k) =>
            LET merged == Merge(Rows, Lookup(Rows, CmpRungOf(k), CheckedColumn[k]))
            IN /\ Len(merged) = Len(Rows)
               /\ \A p \in 1..Len(Rows) : merged[p].row = Rows[p]
               /\ \A l \in DOMAIN results[k].mask :
                     /\ l \in RungLabels(Rows, BaseRungOf(k))
                     /\ results[k].mask[l] =
                           ~Le(At(Rows, l)[CheckedColumn[k]], PartnerVal(k, l))
               /\ pc = "returned" =>
                     \A l \in Labels(Rows) :
                         Flagged(k, l) <=>
                             /\ InReport(l)
                             /\ CheckedColumn[k] \in ReportCols
                             /\ Holds(ReportCell(l, CheckedColumn[k]),
                                      CheckedColumn[k], k)

C26_Witness ==
    /\ pc = "returned"
    /\ OnePerRung(Rows)
    /\ Len(Rows) = 3
    /\ \E l \in Labels(Rows) \ {0} :
          /\ At(Rows, l).uncert_lvl = Low
          /\ At(Rows, l).rec_oil = Num(15)
          /\ PartnerVal(9, l) = Num(10)
          /\ Flagged(9, l)
          /\ ReportCell(l, "rec_oil") = "RE0015;"

\* the registry positions whose id a cell of column c in a row of rung u may
\* hold, and the texts such a cell may have
MayHold(c, u) ==
    {k \in 1..Len(rules0) : CheckedColumn[k] = c /\ BaseRungOf(k) = u}
MayRead(c, u) ==
    {IF S = {} THEN Absent ELSE Joined(S, 1) : S \in SUBSET MayHold(c, u)}

InPlaceCols == {"prj_ioip", "prj_igip"}

Said(rec) == {p \in 1..Len(log) : log[p] = rec}
Before(a, b) == \A p \in Said(a), q \in Said(b) : p < q
DownloadTrace ==
    SelectSeq(log, LAMBDA r : \E k \in 1..Len(TABLES) : r = Downloading(TABLES[k]))

\* C29: load_esdc_data visits the tables in the order of TABLES; for each
\* table the download comes first, then the file save when to_file is set,
\* then the database load; when a download returns None neither that table
\* nor a later one is saved, loaded or downloaded, and the tables loaded
\* before stay loaded.
C29_LoadOrder ==
    locals.command = "load_esdc_data" =>
        /\ DownloadTrace =
              [k \in 1..Len(DownloadTrace) |-> Downloading(TABLES[k])]
        /\ db = SubSeq(TABLES, 1, Len(db))
        /\ \A k \in 1..Len(TABLES) :
              LET table == TABLES[k]
                  saving == Saving(table, locals.filetype)
              IN /\ Cardinality(Said(Downloading(table))) <= 1
                 /\ Before(Downloading(table), saving)
                 /\ Before(Downloading(table), Loaded(table))
                 /\ Before(saving, Loaded(table))
                 /\ Said(saving) # {} =>
                       /\ locals.to_file
                       /\ FileName(table, locals.filetype) \in files
                 /\ table \in Range(db) =>
                       /\ Said(Downloading(table)) # {}
                       /\ Said(Loaded(table)) # {}
                       /\ locals.to_file => Said(saving) # {}
                 /\ Said(FailedDownload(table)) # {} =>
                       /\ pc = "done"
                       /\ Said(saving) = {}
                       /\ \A j \in k..Len(TABLES) :
                             /\ TABLES[j] \notin Range(db)
                             /\ Said(Loaded(TABLES[j])) = {}
                             /\ Said(Saving(TABLES[j], locals.filetype)) = {}
                             /\ j > k => Said(Downloading(TABLES[j])) = {}
                       /\ locals.filetype \in {CSV, JSON} =>
                             db = SubSeq(TABLES, 1, k - 1)

C29_Witness ==
    /\ locals.command = "load_esdc_data"
    /\ pc = "done"
    /\ locals.to_file
    /\ Said(FailedDownload(TABLES[2])) # {}
    /\ db = << TABLES[1] >>
    /\ FileName(TABLES[1], locals.filetype) \in files
    /\ FileName(TABLES[2], locals.filetype) \notin files

====
